---- MODULE Spec2Model ----
(***************************************************************************)
(* Isola (src/src/isola.hpp): a two-player game on a 7 by 7 board.  A turn  *)
(* is checkHasValidMove, move, fireArrow, alternate the active player.      *)
(*                                                                         *)
(* The game is one blocking function, Isola::play; it only stops to read a  *)
(* whitespace-delimited token from std::cin.  A step of the model is one    *)
(* read together with everything the code does up to the next read.  pc     *)
(* names the read the game is blocked at:                                   *)
(*   "loop"  the while condition of play (line 132) is about to be tested   *)
(*   "move"  std::cin >> input in move (line 159)                           *)
(*   "row"   std::cin >> input of the row loop of fireArrow (line 259)      *)
(*   "col"   std::cin >> input of the column loop of fireArrow (line 276)   *)
(*   "over"  the loser and winner were printed (lines 139-144)              *)
(*   "abort" an assert of attemptMove failed (lines 175-178)                *)
(*   "segv"  the process was killed in an access outside the board's        *)
(*           vectors (lines 64-70)                                          *)
(***************************************************************************)
EXTENDS Integers, Sequences, FiniteSets, TLC

VARIABLES
  board,         \* Board::m_board, board[row][col] is the symbol of the cell
  p1,            \* Isola::p1, [avitar, row, col]
  p2,            \* Isola::p2
  activePlayer,  \* Isola::activePlayer: "p1" for &p1, "p2" for &p2
  pc,            \* where play is blocked
  direction,     \* local of move (line 148)
  valid,         \* local of move (line 149)
  row,           \* local of fireArrow (line 249): <<n>> when it holds n
  col,           \* local of fireArrow (line 250): <<n>> when it holds n
  ndebug,        \* TRUE when the build defines NDEBUG (assert is a no-op)
  cin,           \* tokens already waiting on standard input
  input,         \* the token the last step read (<<>> when it read none)
  out,           \* what the last step wrote to std::cout
  calls,         \* the directions attemptMove was called with in the last step
  moves,         \* number of moves that succeeded so far
  arrows,        \* number of arrows that were placed so far
  freeTurns,     \* turns completed after the waiting input ran out
  accessed       \* the <<row, col>> the last step passed to getCell or setCell

vars == <<board, p1, p2, activePlayer, pc, direction, valid, row, col,
          ndebug, cin, input, out, calls, moves, arrows, freeTurns, accessed>>

----------------------------------------------------------------------------
(* Program constants *)

EMPTY_SPOT == "+"
DEAD_CELL == "A"
BoardRows == 7
BoardCols == 7
INT_MAX == (2^30 - 1) + 2^30
INT_MIN == (0 - INT_MAX) - 1

\* the symbols a cell of the board holds
Symbols == {EMPTY_SPOT, DEAD_CELL, "B", "W"}

(* Bound of the model: turns played with freely chosen input. *)
MaxFreeTurns == 2

----------------------------------------------------------------------------
(* Board *)

\* NewBoard that fills the board with the symbol of a dead cell
NewBoardBurned(rows, cols) ==
  [m_rows |-> rows, m_cols |-> cols,
   m_board |-> [r \in 0..(rows - 1) |-> [c \in 0..(cols - 1) |-> "A"]]]

\* Board::Board: rows x cols cells, all EMPTY_SPOT
NewBoard(rows, cols) ==
  [m_rows |-> rows, m_cols |-> cols,
   m_board |-> [r \in 0..(rows - 1) |-> [c \in 0..(cols - 1) |-> EMPTY_SPOT]]]

\* Board::rows
rows(b) == b.m_rows

\* Board::cols returns m_rows, as the source does
cols(b) == b.m_rows

\* the indices m_board[row][col] has an element for
InVector(b, r, c) == r \in DOMAIN b.m_board /\ c \in DOMAIN b.m_board[r]

\* An access outside the vectors is undefined behaviour (operator[] does not
\* check its index).  SIGSEGV is the outcome in which the process is killed.
SIGSEGV == "SIGSEGV"

\* stands for any string that is no symbol of the game: what a read outside
\* the vectors may yield, or a stray write may leave in a cell
OUT_OF_RANGE == "?"

\* what a cell holds once a stray write has overwritten the pointers of its
\* string, or of the vector of its row: the cell is still in the vectors
\* but an access to it is undefined
CLOBBERED == "clobbered"

\* Board::setCell: the set of outcomes of the call, each the signal that
\* ended the process ("" for none) and the board after the call.  Inside the
\* vectors there is one outcome, unless the cell is clobbered.  Outside them
\* the process is killed, or the write lands outside the board, or it lands
\* on one of the board's cells, or on the pointers of a cell or of a row,
\* which the call leaves unreadable.
setCell(b, r, c, symbol) ==
  IF InVector(b, r, c)
    THEN IF b.m_board[r][c] = CLOBBERED
           THEN {[signal |-> SIGSEGV, board |-> b], [signal |-> "", board |-> b],
                 [signal |-> "", board |-> [b EXCEPT !.m_board[r][c] = symbol]]}
           ELSE {[signal |-> "", board |-> [b EXCEPT !.m_board[r][c] = symbol]]}
    ELSE {[signal |-> SIGSEGV, board |-> b], [signal |-> "", board |-> b]}
         \cup {[signal |-> "", board |-> [b EXCEPT !.m_board[x][y] = v]] :
                 x \in DOMAIN b.m_board, y \in 0..(b.m_cols - 1),
                 v \in {symbol, OUT_OF_RANGE, CLOBBERED}}
         \cup {[signal |-> "",
                board |-> [b EXCEPT !.m_board[x] =
                                       [y \in DOMAIN @ |-> CLOBBERED]]] :
                 x \in DOMAIN b.m_board}

\* Board::getCell: the set of outcomes of the call.  Inside the vectors it
\* is the symbol of the cell.  Outside them, or on a clobbered cell, the
\* process is killed (SIGSEGV) or the read yields some string.
getCell(b, r, c) ==
  IF InVector(b, r, c) /\ b.m_board[r][c] # CLOBBERED THEN {b.m_board[r][c]}
  ELSE {SIGSEGV, OUT_OF_RANGE} \cup Symbols

----------------------------------------------------------------------------
(* Input tokens.  std::cin >> input reads one whitespace-delimited token;  *)
(* a token is the sequence of its characters.                              *)

DigitChars == <<"0", "1", "2", "3", "4", "5", "6", "7", "8", "9">>

IsDigit(ch) == \E i \in 1..10 : DigitChars[i] = ch

DigitVal(ch) == (CHOOSE i \in 1..10 : DigitChars[i] = ch) - 1

\* the number of leading decimal digits of s
RECURSIVE LeadingDigits(_)
LeadingDigits(s) ==
  IF s = <<>> \/ ~IsDigit(Head(s)) THEN 0 ELSE 1 + LeadingDigits(Tail(s))

\* the value of the leading digits of s after acc.  A negative number is
\* accumulated below zero, so that INT_MIN is reached without passing
\* INT_MAX.  Outside INT_MIN..INT_MAX the result is -1 (1 when negative).
RECURSIVE Magnitude(_, _, _)
Magnitude(s, acc, neg) ==
  IF s = <<>> \/ ~IsDigit(Head(s)) THEN acc
  ELSE LET d == DigitVal(Head(s))
       IN IF neg
            THEN IF acc < (INT_MIN + d + 9) \div 10 THEN 1
                 ELSE Magnitude(Tail(s), 10 * acc - d, neg)
            ELSE IF acc > (INT_MAX - d) \div 10 THEN -1
                 ELSE Magnitude(Tail(s), 10 * acc + d, neg)

\* std::from_chars(first, last, int&): an optional minus sign and the longest
\* run of digits; what follows the digits is left unread.  value is the int
\* passed by reference; it is written only when the conversion succeeds.
\* ec "" stands for std::errc{}.
FromChars(sv, value) ==
  LET neg  == sv # <<>> /\ Head(sv) = "-"
      body == IF neg THEN Tail(sv) ELSE sv
      n    == LeadingDigits(body)
      val  == Magnitude(body, 0, neg)
  IN IF n = 0 THEN [ec |-> "invalid_argument", value |-> value]
     ELSE IF val = (IF neg THEN 1 ELSE -1)
       THEN [ec |-> "result_out_of_range", value |-> value]
     ELSE [ec |-> "", value |-> val]

\* the decimal token of a natural number
RECURSIVE Tok(_)
Tok(n) == IF n < 10 THEN <<DigitChars[n + 1]>>
          ELSE Tok(n \div 10) \o <<DigitChars[(n % 10) + 1]>>

\* a sequence of numbers as a sequence of tokens
Toks(ns) == [i \in 1..Len(ns) |-> Tok(ns[i])]

NotANumber == <<"a", "b", "c">>
TrailingJunk == <<"3", "x">>
TooLong == <<"9", "9", "9", "9", "9", "9", "9", "9", "9", "9", "9">>
\* the numeral of INT_MIN
IntMin == <<"-", "2", "1", "4", "7", "4", "8", "3", "6", "4", "8">>

\* tokens typed at the direction prompt
DirectionInputs ==
  {Tok(n) : n \in 0..10} \cup {NotANumber, TrailingJunk, TooLong, IntMin}

\* tokens typed at the row and at the column prompt
RowInputs ==
  {Tok(n) : n \in {0, 1, 2, 8}} \cup {NotANumber, TrailingJunk, IntMin}
ColInputs == {Tok(n) : n \in {0, 3, 4, 5, 8}} \cup {NotANumber, IntMin}

\* What an int holds that was never written (row and col on entry; in_row,
\* in_col when from_chars fails, and the row, col computed from them, lines
\* 264, 281).  It stands for every int: the read is undefined and the builds
\* leave whatever the stack holds.  The code tests ec first and never looks
\* at it.  An int that holds n is written <<n>>.
INDETERMINATE == <<>>

----------------------------------------------------------------------------
(* Players and directions *)

\* enum class Direction
DownLeft == 1
Down == 2
DownRight == 3
Left == 4
Right == 6
UpLeft == 7
Up == 8
UpRight == 9

Directions == {DownLeft, Down, DownRight, Left, Right, UpLeft, Up, UpRight}

\* Player::setCoordinates
setCoordinates(p, r, c) == [p EXCEPT !.row = r, !.col = c]

\* Delta laid out like a telephone keypad: 1 2 3 on the top row
DeltaUpsideDown(d) ==
  CASE d = Up        -> <<1, 0>>
    [] d = Down      -> <<-1, 0>>
    [] d = Left      -> <<0, -1>>
    [] d = Right     -> <<0, 1>>
    [] d = UpLeft    -> <<1, -1>>
    [] d = UpRight   -> <<1, 1>>
    [] d = DownLeft  -> <<-1, -1>>
    [] d = DownRight -> <<-1, 1>>
    [] OTHER         -> <<0, 0>>

\* the switch of attemptMove: <<row delta, col delta>>; no case, no change
Delta(d) ==
  CASE d = Up        -> <<-1, 0>>
    [] d = Down      -> <<1, 0>>
    [] d = Left      -> <<0, -1>>
    [] d = Right     -> <<0, 1>>
    [] d = UpLeft    -> <<-1, -1>>
    [] d = UpRight   -> <<-1, 1>>
    [] d = DownLeft  -> <<1, -1>>
    [] d = DownRight -> <<1, 1>>
    [] OTHER         -> <<0, 0>>

\* the player a Player* points to
Deref(q1, q2, ptr) == IF ptr = "p1" THEN q1 ELSE q2

\* a line written to std::cout: the avitar it names (or "") and its text
Msg(who, text) == <<who, text>>

\* the asserts at the head of attemptMove
AssertsHold(d) == d # 5 /\ d >= 1 /\ d <= 9

\* attemptMove, the candidate cell (lines 180-212)
Candidate(p, d) == <<p.row + Delta(d)[1], p.col + Delta(d)[2]>>

\* MoveVerdict without the test for the players' symbols
MoveVerdictNoOccupied(b, q1, q2, r, c) ==
  IF r < 0 \/ r > rows(b) - 1 \/ c < 0 \/ c > cols(b) - 1
    THEN {"Invalid move, please try again: "}
  ELSE {IF v = SIGSEGV THEN SIGSEGV
        ELSE IF v = DEAD_CELL THEN "That space is dead, please try again: "
        ELSE "Valid move" : v \in getCell(b, r, c)}

\* MoveVerdict without the test for DEAD_CELL
MoveVerdictNoDead(b, q1, q2, r, c) ==
  IF r < 0 \/ r > rows(b) - 1 \/ c < 0 \/ c > cols(b) - 1
    THEN {"Invalid move, please try again: "}
  ELSE {IF v = SIGSEGV THEN SIGSEGV
        ELSE IF v = q1.avitar \/ v = q2.avitar
          THEN "That space is occupied by the opponent, please try again: "
        ELSE "Valid move" : v \in getCell(b, r, c)}

\* OffBoard that lets row 7 through
OffBoardLoose(b, r, c) == r < 0 \/ r > rows(b) \/ c < 0 \/ c > cols(b) - 1

\* OffBoard that also turns column 0 down
OffBoardStrict(b, r, c) == r < 0 \/ r > rows(b) - 1 \/ c <= 0 \/ c > cols(b) - 1

\* attemptMove, the bounds test of the candidate cell (lines 216-217)
OffBoard(b, r, c) == r < 0 \/ r > rows(b) - 1 \/ c < 0 \/ c > cols(b) - 1

\* attemptMove, the test of the candidate cell (lines 216-229): the set of
\* outcomes, each the line that is printed, or SIGSEGV.  v is what getCell
\* returns for the cell.
MoveVerdict(b, q1, q2, r, c) ==
  IF OffBoard(b, r, c)
    THEN {"Invalid move, please try again: "}
  ELSE {IF v = SIGSEGV THEN SIGSEGV
        ELSE IF v = DEAD_CELL THEN "That space is dead, please try again: "
        ELSE IF v = q1.avitar \/ v = q2.avitar
          THEN "That space is occupied by the opponent, please try again: "
        ELSE "Valid move" : v \in getCell(b, r, c)}

\* ApplyMove that does not kill the old location
ApplyMoveKeepsOld(b, p, r, c) ==
  LET np == setCoordinates(p, r, c)
  IN {[signal |-> s2.signal, board |-> s2.board, player |-> np] :
        s2 \in setCell(b, np.row, np.col, np.avitar)}

\* ApplyMove that frees the old location instead of killing it
ApplyMoveEmptiesOld(b, p, r, c) ==
  LET np == setCoordinates(p, r, c)
  IN UNION {IF s1.signal # ""
              THEN {[signal |-> s1.signal, board |-> s1.board, player |-> p]}
              ELSE {[signal |-> s2.signal, board |-> s2.board, player |-> np] :
                      s2 \in setCell(s1.board, np.row, np.col, np.avitar)} :
            s1 \in setCell(b, p.row, p.col, EMPTY_SPOT)}

\* ApplyMove that kills the location after the player has been moved to it
ApplyMoveKillsNew(b, p, r, c) ==
  LET np == setCoordinates(p, r, c)
  IN UNION {IF s1.signal # ""
              THEN {[signal |-> s1.signal, board |-> s1.board, player |-> np]}
              ELSE {[signal |-> s2.signal, board |-> s2.board, player |-> np] :
                      s2 \in setCell(s1.board, np.row, np.col, DEAD_CELL)} :
            s1 \in setCell(b, np.row, np.col, np.avitar)}

\* attemptMove, the move itself (lines 233-235): the set of outcomes, each
\* the signal that ended the process ("" for none), the board and the player
ApplyMove(b, p, r, c) ==
  LET np == setCoordinates(p, r, c)
  IN UNION {IF s1.signal # ""
              THEN {[signal |-> s1.signal, board |-> s1.board, player |-> p]}
              ELSE {[signal |-> s2.signal, board |-> s2.board, player |-> np] :
                      s2 \in setCell(s1.board, np.row, np.col, np.avitar)} :
            s1 \in setCell(b, p.row, p.col, DEAD_CELL)}

\* the cells attemptMove passes to getCell (lines 220-224) and to setCell
\* (lines 233, 235) in the call whose outcome is a
AttemptMoveAccesses(b, q1, q2, ptr, d, nd, a) ==
  LET p  == Deref(q1, q2, ptr)
      rc == Candidate(p, d)
  IN IF ~nd /\ ~AssertsHold(d) THEN {}
     ELSE IF OffBoard(b, rc[1], rc[2]) THEN {}
     ELSE IF a.out # <<Msg("", "Valid move")>> THEN {rc}
     ELSE {rc, <<p.row, p.col>>}

\* AttemptMove that returns true whatever the verdict
AttemptMoveAlwaysTrue(b, q1, q2, ptr, d, nd) ==
  LET p  == Deref(q1, q2, ptr)
      rc == Candidate(p, d)
      asIs(ret, o) == [ret |-> ret, board |-> b, p1 |-> q1, p2 |-> q2, out |-> o]
  IN IF ~nd /\ ~AssertsHold(d) THEN {asIs("abort", <<>>)}
     ELSE UNION {IF verdict = SIGSEGV THEN {asIs(SIGSEGV, <<>>)}
                 ELSE IF verdict # "Valid move"
                   THEN {asIs("true", <<Msg("", verdict)>>)}
                 ELSE {[ret |-> IF m.signal = "" THEN "true" ELSE m.signal,
                        board |-> m.board,
                        p1 |-> IF ptr = "p1" THEN m.player ELSE q1,
                        p2 |-> IF ptr = "p2" THEN m.player ELSE q2,
                        out |-> <<Msg("", verdict)>>] :
                         m \in ApplyMove(b, p, rc[1], rc[2])} :
                 verdict \in MoveVerdict(b, q1, q2, rc[1], rc[2])}

\* Isola::attemptMove(p, direction) on board b with players q1, q2; nd is
\* NDEBUG.  The set of outcomes of the call; ret is "true", "false", "abort"
\* when an assert fails, or SIGSEGV.
AttemptMove(b, q1, q2, ptr, d, nd) ==
  LET p  == Deref(q1, q2, ptr)
      rc == Candidate(p, d)
      asIs(ret, o) == [ret |-> ret, board |-> b, p1 |-> q1, p2 |-> q2, out |-> o]
  IN IF ~nd /\ ~AssertsHold(d) THEN {asIs("abort", <<>>)}
     ELSE UNION {IF verdict = SIGSEGV THEN {asIs(SIGSEGV, <<>>)}
                 ELSE IF verdict # "Valid move"
                   THEN {asIs("false", <<Msg("", verdict)>>)}
                 ELSE {[ret |-> IF m.signal = "" THEN "true" ELSE m.signal,
                        board |-> m.board,
                        p1 |-> IF ptr = "p1" THEN m.player ELSE q1,
                        p2 |-> IF ptr = "p2" THEN m.player ELSE q2,
                        out |-> <<Msg("", verdict)>>] :
                         m \in ApplyMove(b, p, rc[1], rc[2])} :
                 verdict \in MoveVerdict(b, q1, q2, rc[1], rc[2])}

\* ArrowTargetOk that only keeps the arrow off the players
ArrowTargetOkNotPlayer(b, r, c) ==
  {IF v = SIGSEGV THEN SIGSEGV
   ELSE IF v \notin {"B", "W"} THEN "true" ELSE "false" : v \in getCell(b, r, c)}

\* fireArrow, the test of the target (lines 288, 292): the set of outcomes,
\* "true" when the cell is Empty, "false" when it is not, or SIGSEGV
ArrowTargetOk(b, r, c) ==
  {IF v = SIGSEGV THEN SIGSEGV
   ELSE IF v = EMPTY_SPOT THEN "true" ELSE "false" : v \in getCell(b, r, c)}

\* Burn that writes the symbol of a free cell
BurnEmpties(b, r, c) == setCell(b, r, c, EMPTY_SPOT)

\* fireArrow, the burn (line 294): the outcomes of the setCell
Burn(b, r, c) == setCell(b, r, c, DEAD_CELL)

\* fireArrow, the 0-based index of a 1-based input (lines 264, 281), in an
\* int: INT_MIN - 1 overflows, which is undefined, and the builds wrap
ToIndex(n) == IF n = INT_MIN THEN INT_MAX ELSE n - 1

\* move, the test of the direction read (lines 164-165)
DirectionBad(ec, dir) == ec # "" \/ dir = 5 \/ dir < 1 \/ dir > 9

\* NextPlayer with the branches of the conditional the wrong way round
NextPlayerStuck(ptr) == IF ptr = "p1" THEN "p1" ELSE "p2"

\* play, the change of the active player (line 135)
NextPlayer(ptr) == IF ptr = "p1" THEN "p2" ELSE "p1"

\* Winner that names the active player
WinnerSwapped(q1, q2, ptr) == IF ptr = "p1" THEN q1.avitar ELSE q2.avitar

\* play, the avitar announced as the winner (line 141)
Winner(q1, q2, ptr) == IF ptr = "p1" THEN q2.avitar ELSE q1.avitar

\* checkHasValidMove, the 8 tests in the order of the else-if chain: the
\* bounds part of the condition and the cell getCell is then called with
Probes(b, p) ==
  LET r == p.row
      c == p.col
  IN << [inb |-> r - 1 >= 0 /\ c - 1 >= 0,             cell |-> <<r - 1, c - 1>>],
        [inb |-> r - 1 >= 0,                           cell |-> <<r - 1, c>>],
        [inb |-> r - 1 >= 0 /\ c + 1 < cols(b),        cell |-> <<r - 1, c + 1>>],
        [inb |-> c - 1 >= 0,                           cell |-> <<r, c - 1>>],
        [inb |-> c + 1 < cols(b),                      cell |-> <<r, c + 1>>],
        [inb |-> r + 1 < rows(b) /\ c - 1 >= 0,        cell |-> <<r + 1, c - 1>>],
        [inb |-> r + 1 < rows(b),                      cell |-> <<r + 1, c>>],
        [inb |-> r + 1 < rows(b) /\ c + 1 < cols(b),   cell |-> <<r + 1, c + 1>>] >>

\* checkHasValidMove, the else-if chain from test i on: the set of outcomes,
\* "true", "false" or SIGSEGV.  A test whose bounds part fails does not call
\* getCell; the first test that finds EMPTY_SPOT ends the chain.
RECURSIVE ProbeFrom(_, _, _)
ProbeFrom(b, pr, i) ==
  IF i > Len(pr) THEN {"false"}
  ELSE IF ~pr[i].inb THEN ProbeFrom(b, pr, i + 1)
  ELSE UNION {IF v = SIGSEGV THEN {SIGSEGV}
              ELSE IF v = EMPTY_SPOT THEN {"true"}
              ELSE ProbeFrom(b, pr, i + 1) :
              v \in getCell(b, pr[i].cell[1], pr[i].cell[2])}

\* CheckHasValidMove without the branch for the cell to the left
CheckHasValidMoveNoLeft(b, p) ==
  LET pr == Probes(b, p)
  IN ProbeFrom(b, SubSeq(pr, 1, 3) \o SubSeq(pr, 5, 8), 1)

\* Isola::checkHasValidMove(p): the set of outcomes of the call, "true",
\* "false" or SIGSEGV
CheckHasValidMove(b, p) == ProbeFrom(b, Probes(b, p), 1)

\* checkHasValidMove, the cells the else-if chain passes to getCell from
\* test i on in a run that ends with the outcome has: one set of cells for
\* every such run.  The chain reads a cell only when the bounds part of its
\* test holds, and reads no cell after the read that kills the process or
\* that finds EMPTY_SPOT.
RECURSIVE ProbeReads(_, _, _, _)
ProbeReads(b, pr, i, has) ==
  IF i > Len(pr) THEN (IF has = "false" THEN {{}} ELSE {})
  ELSE IF ~pr[i].inb THEN ProbeReads(b, pr, i + 1, has)
  ELSE UNION {IF v = SIGSEGV
                THEN (IF has = SIGSEGV THEN {{pr[i].cell}} ELSE {})
              ELSE IF v = EMPTY_SPOT
                THEN (IF has = "true" THEN {{pr[i].cell}} ELSE {})
              ELSE {{pr[i].cell} \cup reads :
                      reads \in ProbeReads(b, pr, i + 1, has)} :
              v \in getCell(b, pr[i].cell[1], pr[i].cell[2])}

\* the cells checkHasValidMove(p) passes to getCell in a call with the
\* outcome has: the set of the runs' sets of cells
CheckHasValidMoveAccesses(b, p, has) == ProbeReads(b, Probes(b, p), 1, has)

----------------------------------------------------------------------------
(* Standard input *)

\* Input that is already waiting when the game starts (after the key press
\* that displayRules waits for).  Each is a sequence of tokens.
\* Both players walk towards each other along column 3.
OpeningFaceToFace == Toks(<<2, 1, 1,  8, 1, 2,  2, 1, 3,  8, 1, 5,  2, 1, 6>>)
\* Player B walks into the corner (0,0); (1,0), (1,1), (1,2) are burned.
OpeningCornerB == Toks(<<4, 2, 1,  8, 2, 2,  4, 2, 3,  8, 7, 6,  4, 7, 5>>)
\* Player W walks into the corner (6,0) whose neighbours (5,0), (5,1) are burned.
OpeningCornerW ==
  Toks(<<2, 6, 1,  4, 7, 7,  2, 6, 2,  4, 7, 6,  6, 7, 5,  4, 1, 1>>)

\* 22 turns: B walks (0,4) (0,5) (0,6) (1,6) (1,5) (2,6) (2,5) (3,6) (3,5)
\* (3,4) (2,4), W walks (5,3) (4,3) (3,3) (3,2) (3,1) (2,1) (1,1) (0,1) (0,2)
\* (1,2) (2,2), and the arrows burn rows 6, 5, 4 and column 0.  Three cells
\* are left Empty: (1,3), (1,4), (2,3).
OpeningEndgame ==
  Toks(<<6, 7, 1,  8, 7, 2,  6, 7, 3,  8, 7, 5,  6, 7, 6,  8, 7, 7,
         2, 6, 1,  4, 6, 2,  4, 6, 3,  4, 6, 5,  3, 6, 6,  8, 6, 7,
         4, 5, 1,  8, 5, 2,  3, 5, 3,  8, 5, 5,  4, 5, 6,  6, 5, 7,
         4, 4, 1,  2, 3, 1,  8, 2, 1,  2, 1, 1>>)

Openings ==
  {<<>>, OpeningFaceToFace, OpeningCornerB, OpeningCornerW, OpeningEndgame}

\* The tokens the next read may return: the head of the waiting input, and
\* once that is used up any token of S while free turns remain.
Stdin(S) ==
  IF cin # <<>> THEN {Head(cin)}
  ELSE IF freeTurns < MaxFreeTurns THEN S ELSE {}

\* the waiting input after one read
Consumed == IF cin # <<>> THEN Tail(cin) ELSE cin

----------------------------------------------------------------------------
(* The game *)

\* Isola::Isola
Init ==
  LET q1 == [avitar |-> "B", row |-> 0, col |-> 3]
      q2 == [avitar |-> "W", row |-> 6, col |-> 3]
      b0 == NewBoard(BoardRows, BoardCols)
  IN \E s1 \in setCell(b0, q1.row, q1.col, q1.avitar) :
     \E s2 \in setCell(s1.board, q2.row, q2.col, q2.avitar) :
       /\ activePlayer = "p1"
       /\ p1 = q1
       /\ p2 = q2
       /\ board = s2.board
       /\ pc = IF s1.signal = "" /\ s2.signal = "" THEN "loop" ELSE "segv"
       /\ direction = 0
       /\ valid = FALSE
       /\ row = INDETERMINATE
       /\ col = INDETERMINATE
       /\ ndebug \in BOOLEAN
       /\ cin \in Openings
       /\ input = <<>>
       /\ out = <<>>
       /\ calls = <<>>
       /\ moves = 0
       /\ arrows = 0
       /\ freeTurns = 0
       /\ accessed = {<<q1.row, q1.col>>, <<q2.row, q2.col>>}

Active == Deref(p1, p2, activePlayer)

\* the prompt of move (lines 154-156)
MovePrompt(p) == Msg(p.avitar, "Turn: ")

\* Isola::play, the while condition (line 132) and what follows it: either
\* move is entered and prompts (lines 148-156), or the result is announced
\* (lines 139-144).
CheckTurn ==
  /\ pc = "loop"
  /\ \E has \in CheckHasValidMove(board, Active) :
     \E reads \in CheckHasValidMoveAccesses(board, Active, has) :
       /\ accessed' = reads
       /\ IF has = SIGSEGV
            THEN /\ pc' = "segv"
                 /\ out' = <<>>
                 /\ UNCHANGED <<direction, valid>>
          ELSE IF has = "true"
            THEN /\ pc' = "move"
                 /\ direction' = 0
                 /\ valid' = FALSE
                 /\ out' = <<MovePrompt(Active)>>
          ELSE /\ pc' = "over"
               /\ out' = <<Msg(Active.avitar, " is no longer able to move."),
                           Msg(Winner(p1, p2, activePlayer), " is the winner!")>>
               /\ UNCHANGED <<direction, valid>>
  /\ calls' = <<>>
  /\ input' = <<>>
  /\ UNCHANGED <<board, p1, p2, activePlayer, row, col, ndebug, cin,
                 moves, arrows, freeTurns>>

\* Isola::move, one pass of the inner loop from the read (line 159), and the
\* call of attemptMove in the outer loop condition when the inner loop ends.
\* When the move succeeds fireArrow is entered and prompts (lines 247, 256).
\* fc is the result of from_chars and a an outcome attemptMove has for the
\* direction read; a is used only where the code makes the call.
ReadDirection ==
  /\ pc = "move"
  /\ \E input_ \in Stdin(DirectionInputs) :
     \E fc \in {FromChars(input_, direction)} :
     \E a \in AttemptMove(board, p1, p2, activePlayer, fc.value, ndebug) :
       LET dir == fc.value
           bad == DirectionBad(fc.ec, dir)
           v   == IF bad THEN valid ELSE TRUE
           said == IF bad THEN <<Msg("", "Invalid Input!")>> ELSE <<>>
       IN /\ cin' = Consumed
          /\ input' = input_
          /\ accessed' = IF v THEN AttemptMoveAccesses(board, p1, p2, activePlayer,
                                                       dir, ndebug, a)
                          ELSE {}
          /\ IF ~v
               THEN /\ pc' = "move"
                    /\ direction' = dir
                    /\ valid' = v
                    /\ out' = said \o <<MovePrompt(Active)>>
                    /\ calls' = <<>>
                    /\ UNCHANGED <<board, p1, p2, moves>>
             ELSE IF a.ret = "abort"
               THEN /\ pc' = "abort"
                    /\ direction' = dir
                    /\ valid' = v
                    /\ out' = said
                    /\ calls' = <<dir>>
                    /\ UNCHANGED <<board, p1, p2, moves>>
             ELSE IF a.ret = SIGSEGV
               THEN /\ pc' = "segv"
                    /\ direction' = dir
                    /\ valid' = v
                    /\ out' = said \o a.out
                    /\ calls' = <<dir>>
                    /\ board' = a.board
                    /\ p1' = a.p1
                    /\ p2' = a.p2
                    /\ UNCHANGED moves
             ELSE IF a.ret = "false"
               THEN /\ pc' = "move"
                    /\ direction' = dir
                    /\ valid' = v
                    /\ out' = said \o a.out \o <<MovePrompt(Active)>>
                    /\ calls' = <<dir>>
                    /\ UNCHANGED <<board, p1, p2, moves>>
             ELSE /\ pc' = "row"
                  /\ direction' = 0
                  /\ valid' = FALSE
                  /\ board' = a.board
                  /\ p1' = a.p1
                  /\ p2' = a.p2
                  /\ moves' = moves + 1
                  /\ out' = said \o a.out
                            \o <<Msg(Deref(a.p1, a.p2, activePlayer).avitar,
                                     " time to fire an arrow!"),
                                 Msg("", "Please select a row: ")>>
                  /\ calls' = <<dir>>
  \* fireArrow's locals are declared without a value on each call (249-250)
  /\ row' = IF pc' = "row" THEN INDETERMINATE ELSE row
  /\ col' = IF pc' = "row" THEN INDETERMINATE ELSE col
  /\ UNCHANGED <<activePlayer, ndebug, arrows, freeTurns>>

\* Isola::fireArrow, one pass of the row loop (lines 256-270).  in_row has
\* no initializer: when the conversion fails it was never written, and row
\* is computed from it.
ReadRow ==
  /\ pc = "row"
  /\ \E input_ \in Stdin(RowInputs) :
     \E fc \in {FromChars(input_, INDETERMINATE)} :
       LET r   == ToIndex(fc.value)
           bad == fc.ec # "" \/ r < 0 \/ r > rows(board) - 1
       IN /\ cin' = Consumed
          /\ input' = input_
          /\ row' = IF fc.ec = "" THEN <<r>> ELSE INDETERMINATE
          /\ IF bad
               THEN /\ pc' = "row"
                    /\ out' = <<Msg("", "Invalid coordinate!"),
                                Msg("", "Please select a row: ")>>
               ELSE /\ pc' = "col"
                    /\ out' = <<Msg("", "Please select a column: ")>>
  /\ calls' = <<>>
  /\ accessed' = {}
  /\ UNCHANGED <<board, p1, p2, activePlayer, direction, valid, col, ndebug,
                 moves, arrows, freeTurns>>

\* Isola::fireArrow, one pass of the column loop (lines 273-286), then the
\* test of the target (lines 288-292), the burn (line 294) and the change of
\* the active player in play (line 135).  in_col is as in_row.
ReadCol ==
  /\ pc = "col"
  /\ \E input_ \in Stdin(ColInputs) :
     \E fc \in {FromChars(input_, INDETERMINATE)} :
       LET c   == ToIndex(fc.value)
           bad == fc.ec # "" \/ c < 0 \/ c > cols(board) - 1
           same == UNCHANGED <<board, activePlayer, arrows, freeTurns>>
       IN /\ cin' = Consumed
          /\ input' = input_
          /\ col' = IF fc.ec = "" THEN <<c>> ELSE INDETERMINATE
          /\ accessed' = IF bad THEN {} ELSE {<<row[1], c>>}
          /\ IF bad
               THEN /\ pc' = "col"
                    /\ out' = <<Msg("", "Invalid coordinate!"),
                                Msg("", "Please select a column: ")>>
                    /\ same
               ELSE \E ok \in ArrowTargetOk(board, row[1], c) :
                      IF ok = SIGSEGV
                        THEN /\ pc' = "segv"
                             /\ out' = <<>>
                             /\ same
                      ELSE IF ok = "false"
                        THEN /\ pc' = "row"
                             /\ out' = <<Msg("", "That location cannot be destroyed."),
                                         Msg("", "Please select a row: ")>>
                             /\ same
                      ELSE \E s \in Burn(board, row[1], c) :
                             IF s.signal # ""
                               THEN /\ pc' = "segv"
                                    /\ out' = <<>>
                                    /\ same
                             ELSE /\ pc' = "loop"
                                  /\ board' = s.board
                                  /\ activePlayer' = NextPlayer(activePlayer)
                                  /\ arrows' = arrows + 1
                                  /\ freeTurns' = IF cin = <<>> THEN freeTurns + 1
                                                  ELSE freeTurns
                                  /\ out' = <<>>
  /\ calls' = <<>>
  /\ UNCHANGED <<p1, p2, direction, valid, row, ndebug, moves>>

Next == CheckTurn \/ ReadDirection \/ ReadRow \/ ReadCol

Spec == Init /\ [][Next]_vars

----------------------------------------------------------------------------
(* The end of a game, with players who keep typing and who, whenever an     *)
(* accepted input exists, eventually enter one.                             *)

\* the game starts with the 22 turns of OpeningEndgame waiting on stdin
InitEndgame == Init /\ cin = OpeningEndgame

\* a direction is read and the move succeeds
MoveAccepted == ReadDirection /\ pc' = "row"

\* a row is read that is in range and has an Empty cell
RowAccepted ==
  /\ ReadRow
  /\ pc' = "col"
  /\ \E c \in 0..6 : getCell(board, row'[1], c) = {EMPTY_SPOT}

\* a column is read that is in range
ColAccepted == ReadCol /\ pc' # "col"

\* a column is read and the arrow is placed
ArrowAccepted == ReadCol /\ pc' = "loop"

\* std::cin >> input blocks until a token is typed: the players keep typing
\* (weak fairness of every step), and an input that is accepted, when there
\* is one at a prompt that keeps coming back, is eventually entered (strong
\* fairness of the accepting steps).
FairSpec ==
  /\ InitEndgame
  /\ [][Next]_vars
  /\ WF_vars(CheckTurn)
  /\ WF_vars(ReadDirection) /\ WF_vars(ReadRow) /\ WF_vars(ReadCol)
  /\ SF_vars(MoveAccepted) /\ SF_vars(RowAccepted)
  /\ SF_vars(ColAccepted) /\ SF_vars(ArrowAccepted)

----------------------------------------------------------------------------
(* Type invariant *)

TypeOK ==
  /\ board.m_board \in [0..6 -> [0..6 -> Symbols]]
  /\ activePlayer \in {"p1", "p2"}
  /\ pc \in {"loop", "move", "row", "col", "over", "abort", "segv"}
  /\ valid \in BOOLEAN

----------------------------------------------------------------------------
(* Vocabulary of the properties, stated on the 7 by 7 grid itself *)

Cells == (0..6) \X (0..6)

At(b, cell) == b.m_board[cell[1]][cell[2]]

CellsHolding(b, symbol) == {cell \in Cells : At(b, cell) = symbol}

Pos(p) == <<p.row, p.col>>

\* the in-bounds cells next to a cell, at most 8
Neighbours(cell) ==
  {n \in Cells : /\ n # cell
                 /\ n[1] - cell[1] \in {-1, 0, 1}
                 /\ n[2] - cell[2] \in {-1, 0, 1}}

\* the cell a keypad digit points to from a cell: 7 8 9 / 4 . 6 / 1 2 3
KeypadTarget(cell, d) ==
  <<cell[1] + (IF d \in {7, 8, 9} THEN -1 ELSE IF d \in {1, 2, 3} THEN 1 ELSE 0),
    cell[2] + (IF d \in {1, 4, 7} THEN -1 ELSE IF d \in {3, 6, 9} THEN 1 ELSE 0)>>

\* a line with this text is among the lines o
Said(o, text) == \E i \in 1..Len(o) : o[i][2] = text

MoveRejections == {"Invalid move, please try again: ",
                   "That space is dead, please try again: ",
                   "That space is occupied by the opponent, please try again: "}

\* the last step turned an input down
Rejected(o) ==
  \/ Said(o, "Invalid Input!")
  \/ \E text \in MoveRejections : Said(o, text)
  \/ Said(o, "Invalid coordinate!")
  \/ Said(o, "That location cannot be destroyed.")

\* the last step called attemptMove with one of the 8 directions
Attempted(cs) == Len(cs) = 1 /\ cs[1] \in Directions

----------------------------------------------------------------------------
(* C1: in every reachable state exactly one cell holds B, exactly one holds *)
(* W, and every other cell is Empty or Burned.                              *)
C1_TwoOccupied ==
  /\ Cardinality(CellsHolding(board, "B")) = 1
  /\ Cardinality(CellsHolding(board, "W")) = 1
  /\ \A cell \in Cells : At(board, cell) \in {"B", "W", EMPTY_SPOT, DEAD_CELL}

\* both players have moved and fired, and an input was just turned down
C1_Witness == moves >= 3 /\ arrows >= 2 /\ pc = "row" /\ Rejected(out)

----------------------------------------------------------------------------
(* C2: the active player changes exactly at the step that places an arrow,  *)
(* that arrow follows one successful move of the same turn, and no step     *)
(* that turns an input down changes the active player.                      *)
C2_StrictAlternation ==
  [][/\ (activePlayer' # activePlayer) <=> (pc = "col" /\ pc' = "loop")
     /\ (pc = "col" /\ pc' = "loop") => (arrows' = arrows + 1 /\ moves = arrows + 1)
     /\ (pc = "move" /\ pc' = "row") => (moves' = moves + 1 /\ moves = arrows)
     /\ Rejected(out') => activePlayer' = activePlayer
     /\ activePlayer' = (IF arrows' % 2 = 0 THEN "p1" ELSE "p2")]_vars

\* the active player has changed at least twice and the player now active
\* had a direction turned down
C2_Witness == arrows >= 2 /\ moves = arrows /\ pc = "move" /\ Rejected(out)

(* C3: a move attempt in one of the 8 directions whose target is on the     *)
(* grid and Empty succeeds: the vacated cell is Burned, the target holds    *)
(* the mover, the mover's position is the target, nothing else changes.     *)
C3_SuccessfulMove ==
  [][(pc = "move" /\ Attempted(calls')) =>
       LET from == Pos(Active)
           t    == KeypadTarget(from, calls'[1])
       IN (t \in Cells /\ At(board, t) = EMPTY_SPOT) =>
            /\ pc' = "row"
            /\ Said(out', "Valid move")
            /\ At(board', from) = DEAD_CELL
            /\ At(board', t) = Active.avitar
            /\ Pos(Deref(p1', p2', activePlayer)) = t
            /\ \A cell \in Cells \ {from, t} : At(board', cell) = At(board, cell)
            /\ IF activePlayer = "p1" THEN p2' = p2 ELSE p1' = p1
            /\ activePlayer' = activePlayer]_vars

\* a diagonal move of W has just succeeded
C3_Witness ==
  /\ pc = "row"
  /\ Said(out, "Valid move")
  /\ activePlayer = "p2"
  /\ calls \in {<<UpLeft>>, <<UpRight>>}

(* C4: a move attempt in one of the 8 directions whose target is off the    *)
(* grid, Burned or Occupied is turned down: nothing on the board and no     *)
(* position changes, the turn does not advance and the same player is       *)
(* prompted for a direction again.                                          *)
C4_RejectedMove ==
  [][(pc = "move" /\ Attempted(calls')) =>
       LET t == KeypadTarget(Pos(Active), calls'[1])
       IN (t \notin Cells \/ At(board, t) # EMPTY_SPOT) =>
            /\ ~Said(out', "Valid move")
            /\ \E text \in MoveRejections : Said(out', text)
            /\ board' = board /\ p1' = p1 /\ p2' = p2
            /\ activePlayer' = activePlayer
            /\ moves' = moves /\ arrows' = arrows
            /\ pc' = "move"
            /\ out'[Len(out')] = Msg(Active.avitar, "Turn: ")]_vars

\* W was just refused the cell that B stands on
C4_Witness ==
  /\ pc = "move"
  /\ activePlayer = "p2"
  /\ Attempted(calls)
  /\ KeypadTarget(Pos(p2), calls[1]) = Pos(p1)
  /\ Said(out, "That space is occupied by the opponent, please try again: ")

(* C5: an arrow whose target is not Empty is turned down with the board     *)
(* unchanged and the arrow step started again for the same player; a step   *)
(* of the arrow phase changes only a cell that was Empty.                   *)
C5_ArrowOnlyOntoEmpty ==
  [][/\ (pc = "col" /\ ~Said(out', "Invalid coordinate!")) =>
          (At(board, <<row[1], col'[1]>>) # EMPTY_SPOT =>
             /\ Said(out', "That location cannot be destroyed.")
             /\ board' = board
             /\ pc' = "row"
             /\ activePlayer' = activePlayer
             /\ arrows' = arrows)
     /\ pc \in {"row", "col"} =>
          \A cell \in Cells :
             At(board', cell) # At(board, cell) =>
               (At(board, cell) = EMPTY_SPOT /\ At(board', cell) = DEAD_CELL)]_vars

\* an arrow aimed at a Burned cell was just turned down
C5_Witness ==
  /\ pc = "row"
  /\ Said(out, "That location cannot be destroyed.")
  /\ At(board, <<row[1], col[1]>>) = DEAD_CELL

(* C6: checkHasValidMove(p) is true exactly when some in-bounds neighbour   *)
(* of p's position is Empty.                                                *)
C6_HasValidMoveIffEmptyNeighbour ==
  \A p \in {p1, p2} :
     /\ CheckHasValidMove(board, p) \in {{"true"}, {"false"}}
     /\ CheckHasValidMove(board, p) = {"true"}
          <=> \E n \in Neighbours(Pos(p)) : At(board, n) = EMPTY_SPOT

\* B stands in a corner with no Empty neighbour while W, away from the
\* edges, has one
C6_Witness ==
  /\ Pos(p1) = <<0, 0>>
  /\ CheckHasValidMove(board, p1) = {"false"}
  /\ p2.row \in 1..5 /\ p2.col \in 1..5
  /\ CheckHasValidMove(board, p2) = {"true"}

(* C7: the game is over exactly when the loop condition finds the active    *)
(* player without an Empty neighbour; that player is announced as unable to *)
(* move and the other as the winner; nothing happens after that.            *)
C7_GameOver ==
  [][/\ pc # "over"
     /\ pc' = "over" => pc = "loop"
     /\ pc = "loop" =>
          /\ pc' = "over"
               <=> ~\E n \in Neighbours(Pos(Active)) : At(board, n) = EMPTY_SPOT
          /\ pc' = "over" =>
               /\ out' = <<Msg(Active.avitar, " is no longer able to move."),
                           Msg(IF Active.avitar = "B" THEN "W" ELSE "B",
                               " is the winner!")>>
               /\ board' = board /\ p1' = p1 /\ p2' = p2
               /\ activePlayer' = activePlayer]_vars

\* W cannot move at the start of its turn and B is the winner
C7_Witness ==
  /\ pc = "over"
  /\ activePlayer = "p2"
  /\ out = <<Msg("W", " is no longer able to move."), Msg("B", " is the winner!")>>

(* C8: a direction input that is not one of 1,2,3,4,6,7,8,9 is turned down: *)
(* the board, the positions and the active player are unchanged and the     *)
(* game prompts for a direction again, wherever in the move step it comes.  *)
C8_InvalidDirectionRejected ==
  [][(pc = "move" /\ Said(out', "Invalid Input!")) =>
       /\ board' = board /\ p1' = p1 /\ p2' = p2
       /\ activePlayer' = activePlayer
       /\ calls' = <<>>
       /\ pc' = "move"]_vars

(* C9: attemptMove is only ever called with one of the 8 directions, so its *)
(* asserts hold at every call and the game never aborts.                    *)
C9_OnlyValidDirections ==
  /\ \A i \in 1..Len(calls) : calls[i] \in {1, 2, 3, 4, 6, 7, 8, 9}
  /\ pc # "abort"

(* C10: a cell that is Burned is Burned after every step, no player ever    *)
(* comes to stand on a cell that was Burned, and an arrow whose row and     *)
(* column name a Burned cell is turned down: nothing is burned, no arrow is *)
(* counted and the same player is asked for a row again.                    *)
C10_BurnedForever ==
  [][/\ \A cell \in Cells :
          At(board, cell) = DEAD_CELL =>
            /\ At(board', cell) = DEAD_CELL
            /\ Pos(p1') # cell /\ Pos(p2') # cell
     /\ (/\ pc = "col"
         /\ col' # INDETERMINATE
         /\ col'[1] \in 0..(BoardCols - 1)
         /\ At(board, <<row[1], col'[1]>>) = DEAD_CELL) =>
          /\ pc' = "row"
          /\ Said(out', "That location cannot be destroyed.")
          /\ board' = board
          /\ arrows' = arrows
          /\ activePlayer' = activePlayer]_vars

\* an arrow aimed at (0,3), the cell B left Burned when it moved away at the
\* start of the game, was just turned down
C10_Witness ==
  /\ pc = "row"
  /\ Said(out, "That location cannot be destroyed.")
  /\ <<row[1], col[1]>> = <<0, 3>>
  /\ Pos(p1) # <<0, 3>>
  /\ At(board, <<0, 3>>) = DEAD_CELL
  /\ moves = arrows + 1

----------------------------------------------------------------------------
(* C11: each player's stored position is on the 7 by 7 grid, the cell there *)
(* holds that player's symbol, and the two positions differ.                *)
C11_PositionIsOwnCell ==
  /\ \A p \in {p1, p2} :
        /\ p.row \in 0..6
        /\ p.col \in 0..6
        /\ At(board, Pos(p)) = p.avitar
  /\ p1.avitar = "B" /\ p2.avitar = "W"
  /\ Pos(p1) # Pos(p2)

\* both players have moved and now stand next to each other
C11_Witness == moves >= 5 /\ Pos(p2) \in Neighbours(Pos(p1))

----------------------------------------------------------------------------
BurnedCount(b) == Cardinality(CellsHolding(b, DEAD_CELL))

(* C12: the number of Burned cells never decreases, grows by exactly 1 at   *)
(* each successful arrow and at each successful move, is unchanged by every *)
(* step that turns an input down, and equals the number of successful moves *)
(* plus the number of successful arrows, with exactly 2 cells Occupied.     *)
C12_BurnedCount ==
  [][/\ BurnedCount(board') >= BurnedCount(board)
     /\ (pc = "col" /\ pc' = "loop") => BurnedCount(board') = BurnedCount(board) + 1
     /\ Said(out', "Valid move") => BurnedCount(board') = BurnedCount(board) + 1
     /\ Rejected(out') => BurnedCount(board') = BurnedCount(board)
     /\ BurnedCount(board') = moves' + arrows'
     /\ Cardinality(CellsHolding(board', "B") \cup CellsHolding(board', "W")) = 2]_vars

\* 6 moves and 5 arrows have burned 11 cells and a column input was just
\* turned down
C12_Witness ==
  /\ moves = 6 /\ arrows = 5
  /\ BurnedCount(board) = 11
  /\ pc = "col"
  /\ Said(out, "Invalid coordinate!")

----------------------------------------------------------------------------
(* C13: the arrow prompts are entered only by a successful move of the      *)
(* active player, who is the one asked to fire; while an arrow is awaited   *)
(* exactly one more move than arrows has succeeded and no player moves;     *)
(* while a move is awaited as many moves as arrows have succeeded and the   *)
(* board changes only by that move.                                         *)
C13_MoveThenArrow ==
  [][/\ (pc' \in {"row", "col"} /\ pc \notin {"row", "col"}) =>
          /\ pc = "move"
          /\ Said(out', "Valid move")
          /\ Pos(Deref(p1', p2', activePlayer)) # Pos(Active)
          /\ \E i \in 1..Len(out') :
                out'[i] = Msg(Active.avitar, " time to fire an arrow!")
     /\ pc' \in {"row", "col"} => moves' = arrows' + 1
     /\ pc' \in {"loop", "move", "over"} => moves' = arrows'
     /\ pc \in {"loop", "move"} =>
          /\ arrows' = arrows
          /\ board' # board => (Said(out', "Valid move") /\ pc' = "row")
     /\ pc \in {"row", "col"} => (p1' = p1 /\ p2' = p2 /\ moves' = moves)
     /\ activePlayer' # activePlayer => pc = "col"]_vars

\* W has moved and is choosing the column of its arrow
C13_Witness ==
  /\ pc = "col"
  /\ activePlayer = "p2"
  /\ moves = arrows + 1
  /\ arrows >= 1

----------------------------------------------------------------------------
\* the number a token is the decimal numeral of, -1 when it is none (up to 20)
Typed(tok) ==
  IF \E n \in 0..20 : Tok(n) = tok THEN CHOOSE n \in 0..20 : Tok(n) = tok ELSE -1

(* C14: a row or column input that is not a number from 1 to 7 is turned    *)
(* down and the same coordinate prompted again; an accepted row r and       *)
(* column c on an Empty cell burn exactly the cell (r-1, c-1) and leave     *)
(* every other cell and both players as they were.                          *)
C14_ArrowFrame ==
  [][/\ pc = "row" =>
          /\ board' = board /\ p1' = p1 /\ p2' = p2
          /\ activePlayer' = activePlayer
          /\ IF Typed(input') \in 1..7
               THEN pc' = "col" /\ row' = <<Typed(input') - 1>>
               ELSE pc' = "row" /\ Said(out', "Invalid coordinate!")
     /\ pc = "col" =>
          /\ p1' = p1 /\ p2' = p2
          /\ IF Typed(input') \notin 1..7
               THEN /\ pc' = "col"
                    /\ Said(out', "Invalid coordinate!")
                    /\ board' = board
                    /\ activePlayer' = activePlayer
               ELSE LET t == <<row[1], Typed(input') - 1>>
                    IN At(board, t) = EMPTY_SPOT =>
                         /\ pc' = "loop"
                         /\ At(board', t) = DEAD_CELL
                         /\ \A cell \in Cells \ {t} :
                               At(board', cell) = At(board, cell)]_vars

----------------------------------------------------------------------------
(* C15: every coordinate the game passes to getCell or setCell has          *)
(* 0 <= row < 7 and 0 <= col < 7, so no access is outside the vectors and   *)
(* the process is never killed in one.                                      *)
C15_AccessesInBounds ==
  /\ \A rc \in accessed : rc[1] \in 0..6 /\ rc[2] \in 0..6
  /\ pc # "segv"

\* W, on the bottom row, was just refused a move off the grid, and B, on
\* the top row, was refused one before
C15_Witness ==
  /\ pc = "move"
  /\ activePlayer = "p2"
  /\ p2.row = 6 /\ p1.row = 0
  /\ calls \in {<<DownLeft>>, <<Down>>, <<DownRight>>}
  /\ Said(out, "Invalid move, please try again: ")
  /\ accessed = {}

----------------------------------------------------------------------------
(* C16: before the first successful move the game awaits a move of player   *)
(* 1: B is at (0,3), W at (6,3), those cells hold B and W, the other 47     *)
(* cells are Empty and none is Burned.                                      *)
C16_InitialState ==
  (moves = 0 /\ arrows = 0) =>
     /\ activePlayer = "p1"
     /\ p1 = [avitar |-> "B", row |-> 0, col |-> 3]
     /\ p2 = [avitar |-> "W", row |-> 6, col |-> 3]
     /\ DOMAIN board.m_board = 0..6
     /\ \A r \in 0..6 : DOMAIN board.m_board[r] = 0..6
     /\ At(board, <<0, 3>>) = "B"
     /\ At(board, <<6, 3>>) = "W"
     /\ Cardinality(CellsHolding(board, EMPTY_SPOT)) = 47
     /\ CellsHolding(board, DEAD_CELL) = {}
     /\ pc \in {"loop", "move", "abort"}
     /\ pc = "move" => out[Len(out)] = Msg("B", "Turn: ")

\* B has been prompted, has had an input turned down and is prompted again
C16_Witness ==
  /\ moves = 0
  /\ arrows = 0
  /\ pc = "move"
  /\ Said(out, "Invalid Input!")

----------------------------------------------------------------------------
(* C17: the digits 1,2,3,4,6,7,8,9 map one-to-one onto the 8 nonzero pairs  *)
(* of {-1,0,1} x {-1,0,1} as on the keypad legend (7 8 9 up, 1 2 3 down,    *)
(* 1 4 7 left, 3 6 9 right); the candidate of a direction is never the      *)
(* player's own cell, and a successful move lands on the keypad target.     *)
C17_KeypadDirections ==
  [][/\ Directions = {1, 2, 3, 4, 6, 7, 8, 9}
     /\ {Delta(d) : d \in Directions}
          = ({-1, 0, 1} \X {-1, 0, 1}) \ {<<0, 0>>}
     /\ \A d, e \in Directions : d # e => Delta(d) # Delta(e)
     /\ \A p \in {p1, p2} : \A d \in Directions :
           /\ Candidate(p, d) = KeypadTarget(Pos(p), d)
           /\ Candidate(p, d) # Pos(p)
     /\ (pc = "move" /\ Attempted(calls') /\ pc' = "row") =>
           /\ Pos(Deref(p1', p2', activePlayer))
                = KeypadTarget(Pos(Active), calls'[1])
           /\ Pos(Deref(p1', p2', activePlayer)) # Pos(Active)]_vars

\* B has just moved down and to the left from its starting cell
C17_Witness ==
  /\ pc = "row"
  /\ activePlayer = "p1"
  /\ calls = <<DownLeft>>
  /\ Pos(p1) = <<1, 2>>
  /\ At(board, <<0, 3>>) = DEAD_CELL

----------------------------------------------------------------------------
\* the directions attemptMove would accept from the player ptr points to
Accepted(ptr) ==
  {d \in Directions :
     \A a \in AttemptMove(board, p1, p2, ptr, d, ndebug) : a.ret = "true"}

(* C18: checkHasValidMove(p) is true exactly when attemptMove(p, d) would   *)
(* succeed for one of the 8 directions; so whenever a direction is prompted *)
(* for some direction is accepted, and when the game is over none is.       *)
C18_LossCheckAgreesWithMoves ==
  /\ \A ptr \in {"p1", "p2"} :
        CheckHasValidMove(board, Deref(p1, p2, ptr)) = {"true"}
          <=> Accepted(ptr) # {}
  /\ pc = "move" => Accepted(activePlayer) # {}
  /\ pc = "over" => Accepted(activePlayer) = {}

\* a direction is prompted for and exactly one direction would be accepted
C18_Witness ==
  /\ pc = "move"
  /\ Cardinality(Accepted(activePlayer)) = 1
  /\ CheckHasValidMove(board, Active) = {"true"}

----------------------------------------------------------------------------
(* C19: whenever the game is waiting for an arrow some cell is Empty, so    *)
(* some arrow target is accepted.                                           *)
C19_ArrowAlwaysPossible ==
  pc \in {"row", "col"} => CellsHolding(board, EMPTY_SPOT) # {}

----------------------------------------------------------------------------
(* C20: with players who eventually enter an accepted input whenever one    *)
(* exists, every game eventually ends: it reaches GameOver, or the process  *)
(* is ended by a failed assertion (C9), which is counted as an end here.    *)
C20_Terminates == <>(pc \in {"over", "abort"})

====
